---- MODULE Spec2Model ----
(***************************************************************************)
(* ode-ingest: the delta-merge engine (ode_ingest.py) and the delta file   *)
(* driver (upload_tables.py, file_sorting.py) as a state machine.          *)
(*                                                                         *)
(* A table row is a function from column names to values.  The columns of  *)
(* a table are abstracted to two: "key" stands for the business-key        *)
(* column(s) of the table, "val" for its other persisted columns.  A       *)
(* table's contents are a bag of rows.                                      *)
(***************************************************************************)
EXTENDS Bags, FiniteSets, Integers, Sequences, TLC

\* ---------------------------------------------------------------- bounds
\* rows in one incoming RecordSet
MaxRows == 2
\* seconds the wall clock advances during a behaviour
MaxClock == 1
\* delta files per table in the file directory
MaxFiles == 3

\* ---------------------------------------------------------------- values
Keys == {"k1", "k2"}
Vals == {"v1", "v2"}
NULL == "NULL"

AllCols == {"key", "val"}

Range(s) == {s[n] : n \in DOMAIN s}

MkRow(k, v) == [c \in AllCols |-> IF c = "key" THEN k ELSE v]

\* a dict restricted to some columns (the columns of a frame that are not index)
Restrict(r, cols) == [c \in cols \cap DOMAIN r |-> r[c]]

\* a parameter dict as a table row: a column the dict does not name is NULL
Fill(d) == [c \in AllCols |-> IF c \in DOMAIN d THEN d[c] ELSE NULL]

\* SET col = value for the columns of `set`
Override(r, set) == [c \in DOMAIN r |-> IF c \in DOMAIN set THEN set[c] ELSE r[c]]

RECURSIVE SumCopies(_, _)
SumCopies(S, B) ==
  IF S = {} THEN 0
  ELSE LET x == CHOOSE y \in S : TRUE IN B[x] + SumCopies(S \ {x}, B)

SeqToBag(s) == [r \in Range(s) |-> Cardinality({n \in DOMAIN s : s[n] = r})]

\* the bag B with every element x replaced by f[x]
BagMapTo(B, f) ==
  [y \in {f[x] : x \in DOMAIN B} |-> SumCopies({x \in DOMAIN B : f[x] = y}, B)]

InRows == {MkRow(k, v) : k \in Keys, v \in Vals}

\* the incoming RecordSets: one to MaxRows rows
RecordSets == UNION {[1..m -> InRows] : m \in 1..MaxRows}

\* ---------------------------------------------------------------- registry
KeyedTable == "Bilag-master"
PlainTable == "Opsaetning-Rykkerniveau"
Tables == {KeyedTable, PlainTable}

\* table_columns.table_keys: the business-key columns of a table; the empty
\* list stands for both None and [] (a table without business keys)
table_keys(t) == IF t = KeyedTable THEN <<"key">> ELSE <<>>

\* `if not key_columns`
HasKeys(t) == table_keys(t) # <<>>

\* create_table: a composite primary key over the business keys, when there are any
PrimaryKey(t) == IF HasKeys(t) THEN Range(table_keys(t)) ELSE {}

\* ---------------------------------------------------------------- pandas
\* the frame create_dataframe_from_file returns: all columns, a RangeIndex
DataFrame(rows) == [cols |-> AllCols, index |-> {}, rows |-> rows]

\* pd.DataFrame(list of dicts): the columns are the dicts' keys, none for []
FromRecords(recs) ==
  [cols |-> IF recs = <<>> THEN {} ELSE DOMAIN recs[1], index |-> {}, rows |-> recs]

\* df.set_index(keys) raises KeyError unless every key is a column
SetIndexOk(frame, keys) == Range(keys) \subseteq frame.cols

SetIndex(frame, keys) ==
  [frame EXCEPT !.cols = @ \ Range(keys), !.index = Range(keys)]

\* df.to_dict('index') raises ValueError unless the index is unique
IndexUnique(frame) ==
  \A m, n \in DOMAIN frame.rows :
    m # n => Restrict(frame.rows[m], frame.index) # Restrict(frame.rows[n], frame.index)

\* df.to_dict('records'): one dict per row over the columns; the index is left out
to_dict_records(frame) ==
  [n \in DOMAIN frame.rows |-> Restrict(frame.rows[n], frame.cols)]

\* ---------------------------------------------------------------- SQL
\* WHERE [c] = :key_c for every c: NULL equals nothing
Match(r, where) == \A c \in DOMAIN where : where[c] # NULL /\ r[c] = where[c]

\* results.rowcount of an UPDATE
RowCount(tab, where) == SumCopies({r \in DOMAIN tab : Match(r, where)}, tab)

ApplyUpdate(tab, where, set) ==
  BagMapTo(tab, [r \in DOMAIN tab |-> IF Match(r, where) THEN Override(r, set) ELSE r])

\* the session's pending UPDATEs applied in order
RECURSIVE ApplyUpdates(_, _)
ApplyUpdates(tab, pend) ==
  IF pend = <<>> THEN tab
  ELSE ApplyUpdates(ApplyUpdate(tab, Head(pend).where, Head(pend).set), Tail(pend))

SameKey(r, s, pk) == \A c \in pk : r[c] = s[c]

\* the primary key constraint on a batch of new rows: no NULL in a key column,
\* no key twice in the batch, no key already in the table
InsertOk(tab, new, pk) ==
  \/ pk = {}
  \/ \A r \in DOMAIN new :
       /\ new[r] = 1
       /\ \A c \in pk : r[c] # NULL
       /\ \A s \in DOMAIN new : SameKey(r, s, pk) => s = r
       /\ \A s \in DOMAIN tab : ~SameKey(r, s, pk)

\* ON target.[k] = source.[k] for every key k
On(r, s, keys) == \A c \in keys : s[c] # NULL /\ r[c] = s[c]

Hits(r, src, keys) == SumCopies({s \in DOMAIN src : On(r, s, keys)}, src)

Unmatched(tab, src, keys) ==
  LET S == {s \in DOMAIN src : \A r \in DOMAIN tab : ~On(r, s, keys)}
  IN  [s \in S |-> src[s]]

\* The MERGE statement runs: it has a SET clause, no target row is matched by
\* two source rows, and the rows it inserts respect the primary key.
MergeOk(tab, src, keys, data, pk) ==
  /\ data # {}
  /\ \A r \in DOMAIN tab : Hits(r, src, keys) <= 1
  /\ InsertOk(tab, BagMapTo(Unmatched(tab, src, keys),
                            [s \in DOMAIN Unmatched(tab, src, keys) |-> Fill(s)]), pk)

MergeNoUpdate(tab, src, keys, data) ==
  LET un == Unmatched(tab, src, keys) IN tab (+) BagMapTo(un, [s \in DOMAIN un |-> Fill(s)])

\* WHEN MATCHED THEN UPDATE SET data columns; WHEN NOT MATCHED THEN INSERT all columns
MergeStatement(tab, src, keys, data) ==
  LET un  == Unmatched(tab, src, keys)
      upd == [r \in DOMAIN tab |->
                IF Hits(r, src, keys) = 1
                THEN Override(r, Restrict(CHOOSE s \in DOMAIN src : On(r, s, keys), data))
                ELSE r]
  IN  BagMapTo(tab, upd) (+) BagMapTo(un, [s \in DOMAIN un |-> Fill(s)])

\* temp_table = f"#temp_{table_name}_{int(time.time())}"
TempName(t, second) == [table |-> t, ts |-> second, qualified |-> FALSE]

\* temp_table = f"[{DB_NAME}].[{DB_SCHEMA}].[{temp_table}]"
Qualify(name) == [name EXCEPT !.qualified = TRUE]

\* the table a name refers to: the database and schema prefix of a # table is ignored
Refers(name) == <<name.table, name.ts>>

\* ---------------------------------------------------------------- state
VARIABLES
  table,      \* the table this run works on (the loop variable of __main__)
  now,        \* int(time.time()): the wall clock in seconds
  db,         \* the target tables: table name -> bag of rows (committed state)
  tmp,        \* the temp tables that exist: a set of [name, rows]
  names,      \* the temp tables named by the calls of the current second
  inv,        \* the running update_table_from_dataframe / merge_table_from_dataframe call
  dir,        \* the files in config.FILE_DIRECTORY
  processed,  \* the files in its processed_delta_files subdirectory
  drv,        \* the running insert_delta_data call
  lastFail,   \* where the previous insert_delta_data call raised
  redo,       \* the file whose merge was committed and whose move did not happen
  fn          \* the running call of a function of file_sorting or CSVCleaner

vars == <<table, now, db, tmp, names, inv, dir, processed, drv, lastFail, redo, fn>>

TempExists(n) == \E e \in tmp : e.name = n
TempRows(n) == (CHOOSE e \in tmp : e.name = n).rows
TempPut(store, n, rows) == {e \in store : e.name # n} \cup {[name |-> n, rows |-> rows]}
TempDrop(store, n) == {e \in store : e.name # n}

RECURSIVE StaleRows(_)
StaleRows(store) ==
  IF store = {} THEN 0
  ELSE LET e == CHOOSE x \in store : TRUE
       IN  BagCardinality(e.rows) + StaleRows(store \ {e})

Idle ==
  [pc |-> "idle", op |-> "none", tbl |-> KeyedTable, df |-> DataFrame(<<>>),
   pre |-> EmptyBag, fault |-> FALSE, failedAt |-> "none", i |-> 0, pend |-> <<>>,
   new_records |-> <<>>, temp_table |-> TempName(KeyedTable, 0), reused |-> FALSE,
   created |-> <<>>, tried |-> "none", outcome |-> "none", drops |-> <<>>]

\* the tables a primary key allows: at most one row per key
ValidTargets ==
  {SeqToBag(s) : s \in {<<>>} \cup
     {<<MkRow("k1", v)>> : v \in Vals} \cup {<<MkRow("k2", v)>> : v \in Vals} \cup
     {<<MkRow("k1", v), MkRow("k2", w)>> : v \in Vals, w \in Vals}}

NoDriver == [pc |-> "idle"]
NoCall == [op |-> "none"]
NoFile == [name |-> 0]

Init ==
  /\ table \in Tables
  /\ now = 0
  /\ \E target \in ValidTargets :
       db = [t \in Tables |-> IF t = table /\ HasKeys(t) THEN target ELSE EmptyBag]
  /\ tmp = {}
  /\ names = {}
  /\ inv = Idle
  /\ dir = {}
  /\ processed = {}
  /\ drv = NoDriver
  /\ lastFail = [file |-> NoFile, pos |-> 0, from |-> 0]
  /\ redo = [file |-> NoFile, post |-> <<>>]
  /\ fn = NoCall

\* The clock reaches the next second between two calls.  A temp table named
\* after a past second is never named again: it leaves the state, and so do
\* the names taken in the past second.
Tick ==
  /\ inv.pc = "idle"
  /\ now < MaxClock
  /\ now' = now + 1
  /\ tmp' = {}
  /\ names' = {}
  /\ UNCHANGED <<fn, table, db, inv, dir, processed, drv, lastFail, redo>>

\* the explored calls: the rows left in temp tables together with the incoming
\* rows, and the rows of a table without keys, stay within what MaxRows allows
CallBound(t, rows) ==
  /\ t = table
  /\ HasKeys(t) => StaleRows(tmp) + Len(rows) <= MaxRows
  /\ HasKeys(t) \/ BagCardinality(db[t]) + Len(rows) <= 2 * MaxRows

Begin(o, t, frame) ==
  [Idle EXCEPT !.op = o, !.tbl = t, !.df = frame, !.pre = db[t]]

Raise(rec, at, env) ==
  [rec EXCEPT !.failedAt = at, !.fault = @ \/ env]

\* ---------------------------------------------------------------- insert_data
\* conn.execute(table.insert(), df.to_dict('records')) in one transaction
insert_data_ok(tab, frame, pk) ==
  InsertOk(tab, SeqToBag([n \in DOMAIN frame.rows |-> Fill(to_dict_records(frame)[n])]), pk)

insert_data_distinct(tab, frame) ==
  LET new == SeqToBag([n \in DOMAIN frame.rows |-> Fill(to_dict_records(frame)[n])])
  IN  tab (+) [r \in {x \in DOMAIN new : ~BagIn(x, tab)} |-> 1]

insert_data(tab, frame) ==
  tab (+) SeqToBag([n \in DOMAIN frame.rows |-> Fill(to_dict_records(frame)[n])])

\* the result a call leaves in inv when it returns or raises
Finish(rec, result) == [rec EXCEPT !.pc = "done", !.outcome = result]

\* ---------------------------------------------------------------- update_table_from_dataframe
\* lines 93-101: a table without keys goes to insert_data; else the keys become
\* the index of the caller's frame
CallUpdate(t, rows) ==
  /\ inv.pc = "idle" /\ drv.pc = "idle"
  /\ CallBound(t, rows)
  /\ LET b == Begin("update", t, DataFrame(rows))
     IN  inv' = IF ~HasKeys(t) THEN [b EXCEPT !.pc = "insert"]
                ELSE IF SetIndexOk(b.df, table_keys(t))
                THEN [b EXCEPT !.pc = "u_dict", !.df = SetIndex(b.df, table_keys(t))]
                ELSE Finish(Raise(b, "set_index", FALSE), "raise")
  /\ UNCHANGED <<fn, table, now, db, tmp, names, dir, processed, drv, lastFail, redo>>

\* lines 39-55 for a table without keys (lines 99 and 166)
InsertWhole ==
  /\ inv.pc = "insert"
  /\ \E ok \in BOOLEAN :
       IF ok /\ insert_data_ok(db[inv.tbl], inv.df, PrimaryKey(inv.tbl))
       THEN /\ db' = [db EXCEPT ![inv.tbl] = insert_data(@, inv.df)]
            /\ inv' = Finish(inv, "ok")
       ELSE /\ db' = db
            /\ inv' = Finish(Raise(inv, "insert", ~ok), "raise")
  /\ UNCHANGED <<fn, table, now, tmp, names, dir, processed, drv, lastFail, redo>>

\* lines 103-109: the session is opened, the frame becomes a dict by index
UpdateDict ==
  /\ inv.pc = "u_dict"
  /\ inv' = IF IndexUnique(inv.df)
            THEN [inv EXCEPT !.pc = "u_row", !.i = 1]
            ELSE [Raise(inv, "to_dict", FALSE) EXCEPT !.pc = "u_except"]
  /\ UNCHANGED <<fn, table, now, db, tmp, names, dir, processed, drv, lastFail, redo>>

\* lines 110-142: one record: UPDATE by key in the session; a rowcount of 0
\* queues the record for insertion
UpdateRow ==
  /\ inv.pc = "u_row"
  /\ inv.i <= Len(inv.df.rows)
  /\ \E ok \in BOOLEAN :
       LET row   == inv.df.rows[inv.i]
           where == Restrict(row, inv.df.index)
           set   == Restrict(row, inv.df.cols)
           seen  == ApplyUpdates(db[inv.tbl], inv.pend)
       IN  inv' = IF ~ok \/ inv.df.cols = {}
                  THEN [Raise(inv, "update", ~ok) EXCEPT !.pc = "u_except"]
                  ELSE IF RowCount(seen, where) = 0
                  THEN [inv EXCEPT !.i = @ + 1,
                                   !.new_records = Append(@, Override(Fill(where), set))]
                  ELSE [inv EXCEPT !.i = @ + 1,
                                   !.pend = Append(@, [where |-> where, set |-> set])]
  /\ UNCHANGED <<fn, table, now, db, tmp, names, dir, processed, drv, lastFail, redo>>

\* what is committed once line 149 has inserted `withNew` on its own connection:
\* the session's updates come on top only when session.commit() succeeds
AfterInsert(withNew, pend, faultAt) ==
  IF faultAt = "none" THEN ApplyUpdates(withNew, pend) ELSE withNew

\* lines 144-151: the queued records become a frame indexed by the keys, are
\* inserted by insert_data (its own connection and transaction), then the
\* session commits
UpdateFinish ==
  /\ inv.pc = "u_row"
  /\ inv.i > Len(inv.df.rows)
  /\ \E faultAt \in {"none", "insert", "commit"} :
       LET queued == FromRecords(inv.new_records)
           keys   == table_keys(inv.tbl)
           frame  == SetIndex(queued, keys)
           pk     == PrimaryKey(inv.tbl)
       IN  IF ~SetIndexOk(queued, keys)
           THEN /\ db' = db
                /\ inv' = [Raise(inv, "set_index", FALSE) EXCEPT !.pc = "u_except"]
           ELSE IF faultAt = "insert" \/ ~insert_data_ok(db[inv.tbl], frame, pk)
           THEN /\ db' = db
                /\ inv' = [Raise(inv, "insert", faultAt = "insert") EXCEPT !.pc = "u_except"]
           ELSE /\ db' = [db EXCEPT ![inv.tbl] = AfterInsert(insert_data(@, frame), inv.pend, faultAt)]
                /\ inv' = IF faultAt = "commit"
                          THEN [Raise(inv, "commit", TRUE) EXCEPT !.pc = "u_except"]
                          ELSE Finish(inv, "ok")
  /\ UNCHANGED <<fn, table, now, tmp, names, dir, processed, drv, lastFail, redo>>

\* lines 153-158: rollback of the session, the exception is raised again
UpdateExcept ==
  /\ inv.pc = "u_except"
  /\ inv' = Finish([inv EXCEPT !.pend = <<>>], "raise")
  /\ UNCHANGED <<fn, table, now, db, tmp, names, dir, processed, drv, lastFail, redo>>

\* ---------------------------------------------------------------- merge_table_from_dataframe
\* lines 161-169: a table without keys goes to insert_data; else the temp table
\* is named after the table and the current second
StartMerge(t, frame) ==
  LET b == Begin("merge", t, frame)
      n == TempName(t, now)
  IN  IF ~HasKeys(t) THEN [b EXCEPT !.pc = "insert"]
      ELSE [b EXCEPT !.pc = "m_stage", !.temp_table = n, !.reused = Refers(n) \in names]

NamesAfter(t) == IF HasKeys(t) THEN names \cup {Refers(TempName(t, now))} ELSE names

CallMerge(t, rows) ==
  /\ inv.pc = "idle" /\ drv.pc = "idle"
  /\ CallBound(t, rows)
  /\ inv' = StartMerge(t, DataFrame(rows))
  /\ names' = NamesAfter(t)
  /\ UNCHANGED <<fn, table, now, db, tmp, dir, processed, drv, lastFail, redo>>

\* metadata.create_all(engine): CREATE TABLE unless the table exists (checkfirst)
create_all(store, n) == IF \E e \in store : e.name = n THEN store ELSE TempPut(store, n, EmptyBag)

\* lines 171-180: the temp table is created and the frame is inserted into it
MergeStage ==
  /\ inv.pc = "m_stage"
  /\ \E faultAt \in {"none", "create", "insert"} :
       LET n       == Refers(inv.temp_table)
           created == create_all(tmp, n)
           rows    == (CHOOSE e \in created : e.name = n).rows
       IN  IF faultAt = "create"
           THEN /\ tmp' = tmp
                /\ inv' = [Raise(inv, "create", TRUE) EXCEPT
                             !.pc = "m_drop1", !.tried = "raise", !.created = n]
           ELSE IF faultAt = "insert"
           THEN /\ tmp' = created
                /\ inv' = [Raise(inv, "stage", TRUE) EXCEPT
                             !.pc = "m_drop1", !.tried = "raise", !.created = n]
           ELSE /\ tmp' = TempPut(created, n, rows (+) SeqToBag(to_dict_records(inv.df)))
                /\ inv' = [inv EXCEPT !.pc = "m_merge", !.created = n]
  /\ UNCHANGED <<fn, table, now, db, names, dir, processed, drv, lastFail, redo>>

\* data_columns = [col for col in df.columns if col not in key_columns]
data_columns(frame, keys) == frame.cols \ Range(keys)

CommittedEarly(tab, result, faultAt) ==
  IF faultAt \in {"none", "commit"} THEN result ELSE tab

\* conn.execute(MERGE) then conn.commit() on one connection: the statement's
\* result is committed only when both succeed
Committed(tab, result, faultAt) ==
  IF faultAt = "none" THEN result ELSE tab

\* lines 183-239: the name is qualified, the MERGE statement is built, run and committed
MergeRun ==
  /\ inv.pc = "m_merge"
  /\ \E faultAt \in {"none", "merge", "commit"} :
       LET name == Qualify(inv.temp_table)
           keys == Range(table_keys(inv.tbl))
           data == data_columns(inv.df, table_keys(inv.tbl))
           tab  == db[inv.tbl]
           runs == /\ TempExists(Refers(name))
                   /\ MergeOk(tab, TempRows(Refers(name)), keys, data, PrimaryKey(inv.tbl))
       IN  IF faultAt = "merge" \/ ~runs
           THEN /\ db' = db
                /\ inv' = [Raise(inv, "merge", faultAt = "merge") EXCEPT
                             !.pc = "m_drop1", !.tried = "raise", !.temp_table = name]
           ELSE /\ db' = [db EXCEPT ![inv.tbl] =
                            Committed(tab, MergeStatement(tab, TempRows(Refers(name)), keys, data), faultAt)]
                /\ inv' = IF faultAt = "commit"
                          THEN [Raise(inv, "commit", TRUE) EXCEPT
                                  !.pc = "m_drop1", !.tried = "raise", !.temp_table = name]
                          ELSE [inv EXCEPT !.pc = "m_drop1", !.tried = "ok", !.temp_table = name]
  /\ UNCHANGED <<fn, table, now, tmp, names, dir, processed, drv, lastFail, redo>>

FirstCleanupFatal(ok) == IF ok THEN "m_drop2" ELSE "raised"

\* lines 242-247: the exception of the first cleanup attempt is swallowed
AfterFirstCleanup(ok) == "m_drop2"

\* lines 242-247: DROP TABLE IF EXISTS through an engine connection
MergeDrop1 ==
  /\ inv.pc = "m_drop1"
  /\ \E ok \in BOOLEAN :
       /\ tmp' = IF ok THEN TempDrop(tmp, Refers(inv.temp_table)) ELSE tmp
       /\ inv' = IF AfterFirstCleanup(ok) = "m_drop2"
                 THEN [inv EXCEPT !.pc = "m_drop2", !.drops = Append(@, inv.temp_table),
                                  !.fault = @ \/ ~ok]
                 ELSE Finish([inv EXCEPT !.drops = Append(@, inv.temp_table), !.fault = TRUE],
                             "raise")
  /\ UNCHANGED <<fn, table, now, db, names, dir, processed, drv, lastFail, redo>>

\* lines 249-255: DROP TABLE IF EXISTS through a raw connection; then the call
\* returns, or the exception of the try block goes on to the caller
MergeDrop2 ==
  /\ inv.pc = "m_drop2"
  /\ \E ok \in BOOLEAN :
       /\ tmp' = IF ok THEN TempDrop(tmp, Refers(inv.temp_table)) ELSE tmp
       /\ inv' = Finish([inv EXCEPT !.drops = Append(@, inv.temp_table), !.fault = @ \/ ~ok],
                        inv.tried)
  /\ UNCHANGED <<fn, table, now, db, names, dir, processed, drv, lastFail, redo>>

\* the direct caller takes the result; the next call can start
Return ==
  /\ inv.pc = "done" /\ drv.pc = "idle"
  /\ inv' = Idle
  /\ UNCHANGED <<fn, table, now, db, tmp, names, dir, processed, drv, lastFail, redo>>

Next ==
  \/ Tick
  \/ \E t \in Tables, rows \in RecordSets : CallUpdate(t, rows)
  \/ \E t \in Tables, rows \in RecordSets : CallMerge(t, rows)
  \/ InsertWhole
  \/ UpdateDict
  \/ UpdateRow
  \/ UpdateFinish
  \/ UpdateExcept
  \/ MergeStage
  \/ MergeRun
  \/ MergeDrop1
  \/ MergeDrop2
  \/ Return

Spec == Init /\ [][Next]_vars

\* ---------------------------------------------------------------- file_sorting
\* datetime(1900, 1, 1) as yyyymmdd: the date of a filename without a date
Sentinel == 19000101
\* None: the filename holds no yyyy-mm-dd date (dates are yyyymmdd numbers)
NoDate == 0

\* A filename by its tokens: the table and Total/Delta marker find_files
\* matches, the yyyy-mm-dd date (NoDate when the name has none), the _NNN_
\* sequence number (0 when the name has none), and `name`, the rank of the
\* whole filename among the filenames in string order.
DeltaFile(t, n) ==
  [table |-> t, kind |-> "Delta", name |-> n,
   date |-> CASE n = 1 -> 20250617 [] n = 2 -> 20250617 [] n = 3 -> NoDate
              [] OTHER -> 20250101,
   seq  |-> CASE n = 1 -> 2 [] n = 2 -> 1 [] n = 3 -> 0 [] OTHER -> n + 1]

TotalFile(t) == [table |-> t, kind |-> "Total", name |-> 0, date |-> 20250101, seq |-> 1]

\* the file directory when a run starts
Directory ==
  {DeltaFile(t, n) : t \in Tables, n \in 1..MaxFiles} \cup {TotalFile(t) : t \in Tables}

\* the RecordSet create_dataframe_from_file reads from a file
Content(f) ==
  CASE f.name = 1 -> <<MkRow("k1", "v1")>>
    [] f.name = 2 -> <<MkRow("k1", "v2"), MkRow("k2", "v1")>>
    [] f.name = 3 -> <<MkRow("k2", "v2")>>
    [] OTHER      -> <<MkRow("k2", "v1")>>

get_file_sort_key_seq_first(f) ==
  <<f.seq, IF f.date = NoDate THEN Sentinel ELSE f.date, f.name>>

\* get_file_sort_key: (file_date, seq_number, filename)
get_file_sort_key(f) == <<IF f.date = NoDate THEN Sentinel ELSE f.date, f.seq, f.name>>

\* tuple comparison a <= b
KeyLeq(a, b) ==
  \/ a[1] < b[1]
  \/ a[1] = b[1] /\ a[2] < b[2]
  \/ a[1] = b[1] /\ a[2] = b[2] /\ a[3] <= b[3]

\* x goes behind every element whose key is not greater (sorted() is stable)
RECURSIVE InsertSorted(_, _)
InsertSorted(s, x) ==
  IF s = <<>> THEN <<x>>
  ELSE IF KeyLeq(get_file_sort_key(Head(s)), get_file_sort_key(x))
  THEN <<Head(s)>> \o InsertSorted(Tail(s), x)
  ELSE <<x>> \o s

\* sorted(file_paths, key=get_file_sort_key)
RECURSIVE sort_files(_)
sort_files(file_paths) ==
  IF file_paths = <<>> THEN <<>>
  ELSE InsertSorted(sort_files(SubSeq(file_paths, 1, Len(file_paths) - 1)),
                    file_paths[Len(file_paths)])

\* find_files(directory, [f"{table}_Delta"]): the matching files, in the order
\* the directory is iterated, which is any order
find_files(files, t) ==
  LET S == {f \in files : f.table = t /\ f.kind = "Delta"}
  IN  {l \in [1..Cardinality(S) -> S] : Range(l) = S}

\* ---------------------------------------------------------------- insert_delta_data
NoFail == [file |-> NoFile, pos |-> 0, from |-> 0]
NoRedo == [file |-> NoFile, post |-> EmptyBag]

ReversedFile(files, pos) == files[Len(files) - pos]

\* the file the loop over files[from_file:] is at
CurrentFile(files, pos) == files[pos + 1]

\* lines 66-69: the delta files of the table are found and sorted
DeltaStart(from_file) ==
  /\ drv.pc = "idle" /\ inv.pc = "idle"
  /\ \E listing \in find_files(dir, table) :
       drv' = [pc |-> "loop", tbl |-> table, files |-> sort_files(listing),
               from_file |-> from_file, pos |-> from_file, applied |-> <<>>,
               rerun |-> /\ lastFail.file # NoFile
                         /\ lastFail.from = 0
                         /\ lastFail.pos = from_file,
               failed |-> lastFail.file]
  /\ UNCHANGED <<fn, table, now, db, tmp, names, inv, dir, processed, lastFail, redo>>

\* lines 71-75: the next file is read and merge_table_from_dataframe is called
\* with its frame; an exception of create_dataframe_from_file leaves the function
DeltaRead ==
  /\ drv.pc = "loop" /\ inv.pc = "idle"
  /\ drv.pos < Len(drv.files)
  /\ LET file == CurrentFile(drv.files, drv.pos)
     IN  /\ CallBound(drv.tbl, Content(file))
         /\ \E ok \in BOOLEAN :
              IF ok
              THEN /\ inv' = StartMerge(drv.tbl, DataFrame(Content(file)))
                   /\ names' = NamesAfter(drv.tbl)
                   /\ drv' = [drv EXCEPT !.pc = "merge", !.applied = Append(@, file)]
                   /\ lastFail' = lastFail
              ELSE /\ inv' = inv
                   /\ names' = names
                   /\ drv' = [pc |-> "idle"]
                   /\ lastFail' = [file |-> file, pos |-> drv.pos, from |-> drv.from_file]
  /\ UNCHANGED <<fn, table, now, db, tmp, dir, processed, redo>>

\* the loop is over: the function returns
DeltaExit ==
  /\ drv.pc = "loop" /\ inv.pc = "idle"
  /\ drv.pos >= Len(drv.files)
  /\ drv' = [pc |-> "idle"]
  /\ lastFail' = NoFail
  /\ UNCHANGED <<fn, table, now, db, tmp, names, inv, dir, processed, redo>>

MovesAlways(outcome, ok) == ok

\* lines 75-77: shutil.move runs when merge_table_from_dataframe returned, not
\* when it raised, and it can fail itself (or the process stops before it)
Moves(outcome, ok) == outcome = "ok" /\ ok

\* lines 75-77: the merge returns and the file is moved to processed_delta_files,
\* or the exception of the merge or of the move leaves the function
DeltaMove ==
  /\ drv.pc = "merge" /\ inv.pc = "done"
  /\ LET file == CurrentFile(drv.files, drv.pos)
     IN  \E ok \in BOOLEAN :
           /\ IF Moves(inv.outcome, ok)
              THEN /\ dir' = dir \ {file}
                   /\ processed' = processed \cup {file}
              ELSE /\ dir' = dir
                   /\ processed' = processed
           /\ IF inv.outcome = "ok" /\ ok
              THEN /\ drv' = [drv EXCEPT !.pc = "loop", !.pos = @ + 1]
                   /\ lastFail' = lastFail
                   /\ redo' = IF redo.file = file THEN NoRedo ELSE redo
              ELSE /\ drv' = [pc |-> "idle"]
                   /\ lastFail' = [file |-> file, pos |-> drv.pos, from |-> drv.from_file]
                   /\ redo' = IF inv.outcome = "ok"
                              THEN [file |-> file, post |-> db[drv.tbl]]
                              ELSE redo
  /\ inv' = Idle
  /\ UNCHANGED <<fn, table, now, db, tmp, names>>

InitDelta ==
  /\ table \in Tables
  /\ now = 0
  /\ db = [t \in Tables |-> EmptyBag]
  /\ tmp = {}
  /\ names = {}
  /\ inv = Idle
  /\ dir = Directory
  /\ processed = {}
  /\ drv = NoDriver
  /\ lastFail = NoFail
  /\ redo = NoRedo
  /\ fn = NoCall

NextDelta ==
  \/ Tick
  \/ \E from_file \in 0..MaxFiles : DeltaStart(from_file)
  \/ DeltaRead
  \/ DeltaExit
  \/ DeltaMove
  \/ InsertWhole
  \/ MergeStage
  \/ MergeRun
  \/ MergeDrop1
  \/ MergeDrop2

SpecDelta == InitDelta /\ [][NextDelta]_vars

\* ---------------------------------------------------------------- properties of a call
Done == inv.pc = "done"

KeyedCall == inv.op \in {"update", "merge"} /\ HasKeys(inv.tbl)

Incoming == inv.df.rows

DistinctKeys(rows) ==
  \A m, n \in DOMAIN rows : m # n => ~SameKey(rows[m], rows[n], {"key"})

\* C1: a RecordSet with distinct business keys applied to an empty keyed
\* target (first application), or to the target the first application leaves
\* (second application), with no failure of the environment and a temp table
\* name of its own, completes successfully and leaves exactly its rows.
IdempotentMerge ==
  (/\ Done /\ KeyedCall /\ ~inv.fault /\ ~inv.reused
   /\ DistinctKeys(Incoming)
   /\ inv.pre = EmptyBag \/ inv.pre = SeqToBag(Incoming))
  => inv.outcome = "ok" /\ db[inv.tbl] = SeqToBag(Incoming)

\* the same statement for merge_table_from_dataframe alone
IdempotentBulkMerge ==
  inv.op = "merge" => IdempotentMerge

\* C2: after a keyed merge has completed successfully, every incoming row is
\* in the target exactly once, and no two rows of the target share a business key.
MergePostcondition ==
  (Done /\ KeyedCall /\ inv.outcome = "ok")
  => /\ \A n \in DOMAIN Incoming : CopiesIn(Incoming[n], db[inv.tbl]) = 1
     /\ \A r \in DOMAIN db[inv.tbl] :
          /\ db[inv.tbl][r] = 1
          /\ \A q \in DOMAIN db[inv.tbl] : SameKey(r, q, PrimaryKey(inv.tbl)) => q = r

\* a successful bulk merge that updated one existing row to a new value and
\* inserted one new row
MergedUpdateAndInsert ==
  /\ Done /\ inv.op = "merge" /\ HasKeys(inv.tbl) /\ inv.outcome = "ok"
  /\ \E m, n \in DOMAIN Incoming :
       /\ \E r \in DOMAIN inv.pre : SameKey(r, Incoming[m], {"key"}) /\ r # Incoming[m]
       /\ \A r \in DOMAIN inv.pre : ~SameKey(r, Incoming[n], {"key"})
  /\ MergePostcondition

\* C3: when a step of a keyed application failed, the call raises and the
\* target table is as it was before the call.
AtomicApplication ==
  (Done /\ KeyedCall /\ inv.failedAt # "none")
  => inv.outcome = "raise" /\ db[inv.tbl] = inv.pre

\* a bulk merge whose MERGE statement had changed the target when the commit failed
CommitFailedAfterMerge ==
  /\ Done /\ inv.op = "merge" /\ HasKeys(inv.tbl) /\ inv.failedAt = "commit"
  /\ \E n \in DOMAIN Incoming : CopiesIn(Incoming[n], inv.pre) = 0
  /\ db[inv.tbl] = inv.pre

\* C8: a keyed merge_table_from_dataframe call ends after two cleanup attempts,
\* each naming the temp table the call created, with the outcome of its try block.
CleanupAlwaysRuns ==
  (Done /\ inv.op = "merge" /\ HasKeys(inv.tbl))
  => /\ Len(inv.drops) = 2
     /\ \A n \in DOMAIN inv.drops : Refers(inv.drops[n]) = inv.created
     /\ inv.outcome = inv.tried

\* a call whose MERGE failed by itself and whose cleanup attempts failed too
CleanupFailedAfterFailure ==
  /\ Done /\ inv.op = "merge" /\ HasKeys(inv.tbl)
  /\ inv.failedAt = "merge" /\ inv.outcome = "raise"
  /\ TempExists(inv.created)
  /\ Len(inv.drops) = 2

\* C9: a merge_table_from_dataframe call never takes a temp table name that an
\* earlier call for the same table has taken.
UniqueTempNames ==
  (inv.op = "merge" /\ HasKeys(inv.tbl) /\ inv.pc # "idle") => ~inv.reused

\* C10: on a keyed table and with no failure of the environment, the row-by-row
\* strategy ends as the bulk strategy does on the same target and RecordSet:
\* both raise and leave the target unchanged, or both succeed with the same contents.
StrategiesEquivalent ==
  (Done /\ inv.op = "update" /\ HasKeys(inv.tbl) /\ ~inv.fault)
  => LET keys == Range(table_keys(inv.tbl))
         src  == SeqToBag(Incoming)
     IN  IF MergeOk(inv.pre, src, keys, AllCols \ keys, PrimaryKey(inv.tbl))
         THEN /\ inv.outcome = "ok"
              /\ db[inv.tbl] = MergeStatement(inv.pre, src, keys, AllCols \ keys)
         ELSE inv.outcome = "raise" /\ db[inv.tbl] = inv.pre

\* ---------------------------------------------------------------- properties of insert_delta_data
Running == drv.pc # "idle"

\* C4: a file enters processed_delta_files only in the step that follows the
\* successful return of its own merge; when reading or merging a file raises,
\* the function is left with that file still in the directory and no file moved.
MovedOnlyAfterMerge ==
  [][/\ \A f \in processed' \ processed :
          /\ drv.pc = "merge" /\ inv.pc = "done" /\ inv.outcome = "ok"
          /\ f = CurrentFile(drv.files, drv.pos)
     /\ (lastFail' # lastFail /\ lastFail'.file # NoFile)
          => /\ Running /\ drv'.pc = "idle"
             /\ lastFail'.file = CurrentFile(drv.files, drv.pos)
             /\ lastFail'.file \in dir'
             /\ processed' = processed]_vars

\* the merge of a file raised after an earlier file of the call was moved, and a
\* later file waits in the directory
FailedBetweenFiles ==
  /\ ~Running
  /\ lastFail.file # NoFile /\ lastFail.file \in dir
  /\ lastFail.from = 0 /\ lastFail.pos = 1
  /\ Cardinality(processed) = 1
  /\ Cardinality({f \in dir : f.table = table /\ f.kind = "Delta"}) = MaxFiles - 1

\* C5: the files a call has read so far are the files of the sorted list from
\* position from_file on, in that order; every file but the one being merged
\* is already moved when the next one is read.
AppliedInSortedOrder ==
  Running
  => /\ drv.files = sort_files(drv.files)
     /\ drv.applied = <<>> \/ drv.from_file + Len(drv.applied) <= Len(drv.files)
     /\ \A n \in DOMAIN drv.applied : drv.applied[n] = drv.files[drv.from_file + n]
     /\ \A n \in DOMAIN drv.applied :
          (n < Len(drv.applied) \/ drv.pc = "loop")
            => drv.applied[n] \in processed /\ drv.applied[n] \notin dir
     /\ drv.pc = "loop" => inv.pc = "idle"
     /\ drv.pc = "merge" => drv.applied # <<>> /\ inv.df.rows = Content(drv.applied[Len(drv.applied)])

\* the third file of the sorted list is being merged, the first two are moved
ThirdFileInProgress ==
  /\ drv.pc = "merge" /\ inv.pc = "m_merge"
  /\ drv.from_file = 0
  /\ Len(drv.applied) = 3
  /\ drv.applied[1] \in processed /\ drv.applied[2] \in processed

\* a merge of the file whose first merge was committed and whose move did not
\* happen has returned, on the target as that first merge left it
Reapplied ==
  /\ drv.pc = "merge" /\ Done /\ inv.outcome = "ok"
  /\ redo.file = CurrentFile(drv.files, drv.pos)
  /\ inv.pre = redo.post

\* C6 as stated: the second application of the file leaves the target as the
\* first application left it, for every table.
ReapplyLeavesTargetSame ==
  Reapplied => db[drv.tbl] = redo.post

\* the same for a table with business keys and a second merge that stages
\* into a temp table no earlier call has named
ReapplyLeavesKeyedTargetSame ==
  (Reapplied /\ HasKeys(drv.tbl) /\ ~inv.reused) => db[drv.tbl] = redo.post

\* C7: a call with from_file = k that follows a call from position 0 which
\* raised at sorted position k starts its loop at the file that failed.
ResumesAtFailedFile ==
  (Running /\ drv.rerun)
  => /\ Len(drv.files) > drv.from_file
     /\ CurrentFile(drv.files, drv.from_file) = drv.failed

\* ---------------------------------------------------------------- tables without business keys
PlainCall == inv.op \in {"update", "merge"} /\ ~HasKeys(inv.tbl)

\* C11: a call of update_table_from_dataframe or merge_table_from_dataframe on a
\* table without business keys that returns has added every incoming row to the
\* rows the table held, which are all still there; a call that raises has
\* changed nothing.
NoKeyAppends ==
  (Done /\ PlainCall)
  => IF inv.outcome = "ok"
     THEN /\ db[inv.tbl] = inv.pre (+) SeqToBag(Incoming)
          /\ BagCardinality(db[inv.tbl]) = BagCardinality(inv.pre) + Len(Incoming)
     ELSE db[inv.tbl] = inv.pre

\* the same MaxRows rows, two of them equal or not, have been merged a second
\* time: the table holds each of them twice, 2 * MaxRows rows in all
AppendedTwice ==
  /\ Done /\ PlainCall /\ inv.op = "merge" /\ inv.outcome = "ok"
  /\ Len(Incoming) = MaxRows
  /\ inv.pre = SeqToBag(Incoming)
  /\ BagCardinality(db[inv.tbl]) = 2 * MaxRows
  /\ \A r \in DOMAIN inv.pre : db[inv.tbl][r] = 2 * inv.pre[r]

\* ---------------------------------------------------------------- filenames
\* the longest list passed to sort_files
MaxList == 4

\* A filename is the sequence of its tokens between underscores.  A token is a
\* yyyy-mm-dd text (digits, not always a calendar date), a three-digit number,
\* or other text; `code` orders the tokens as their texts are ordered.
DateToken(y, m, d) ==
  [kind |-> "date", y |-> y, m |-> m, d |-> d, code |-> 20000000 + y * 10000 + m * 100 + d]

NumToken(n) == [kind |-> "num", n |-> n, code |-> n]

TextToken(c) == [kind |-> "text", code |-> 40000000 + c]

\* 0751_ODE_2025-06-17_002_Delta and the like
File_0617_002 == <<NumToken(751), TextToken(2), DateToken(2025, 6, 17), NumToken(2), TextToken(1)>>
File_0617_001 == <<NumToken(751), TextToken(2), DateToken(2025, 6, 17), NumToken(1), TextToken(1)>>
File_0101_005 == <<NumToken(751), TextToken(2), DateToken(2025, 1, 1), NumToken(5), TextToken(1)>>
\* undated_Delta
File_undated == <<TextToken(3), TextToken(1)>>
\* 0751_ODE_2025-13-45_003_Delta: the date text is no calendar date
File_baddate == <<NumToken(751), TextToken(2), DateToken(2025, 13, 45), NumToken(3), TextToken(1)>>
\* 0750_ODE_2025-06-17_007: the number has no underscore behind it
File_noseq == <<NumToken(750), TextToken(2), DateToken(2025, 6, 17), NumToken(7)>>

FileNames ==
  {File_0617_002, File_0617_001, File_0101_005, File_undated, File_baddate, File_noseq}

\* datetime.strptime(date_str, '%Y-%m-%d') raises ValueError unless the text is
\* a calendar date
DaysIn(y, m) ==
  IF m \in {4, 6, 9, 11} THEN 30
  ELSE IF m # 2 THEN 31
  ELSE IF y % 4 = 0 /\ (y % 100 # 0 \/ y % 400 = 0) THEN 29 ELSE 28

CalendarDate(y, m, d) == y >= 1 /\ m \in 1..12 /\ d \in 1..DaysIn(y, m)

First(S) == CHOOSE n \in S : \A k \in S : n <= k

\* re.search(\d{4}-\d{2}-\d{2}): the first date text of the name, as yyyymmdd;
\* None when there is none or when it is no calendar date
extract_date_from_filename(filename) ==
  LET S == {n \in DOMAIN filename : filename[n].kind = "date"}
  IN  IF S = {} THEN NoDate
      ELSE LET t == filename[First(S)]
           IN  IF CalendarDate(t.y, t.m, t.d) THEN t.y * 10000 + t.m * 100 + t.d ELSE NoDate

\* re.search(_(\d{3})_): the first three-digit token with an underscore on both
\* sides; 0 when there is none
extract_sequence_number(filename) ==
  LET S == {n \in 2..(Len(filename) - 1) : filename[n].kind = "num"}
  IN  IF S = {} THEN 0 ELSE filename[First(S)].n

\* filename a <= filename b as strings
RECURSIVE NameLeq(_, _)
NameLeq(a, b) ==
  IF a = <<>> THEN TRUE
  ELSE IF b = <<>> THEN FALSE
  ELSE IF Head(a).code # Head(b).code THEN Head(a).code < Head(b).code
  ELSE NameLeq(Tail(a), Tail(b))

\* the file of a path by its tokens, as get_file_sort_key reads them
PathFile(filepath) ==
  [path |-> filepath,
   name |-> Cardinality({g \in FileNames : NameLeq(g, filepath)}),
   date |-> extract_date_from_filename(filepath),
   seq  |-> extract_sequence_number(filepath)]

\* sort_files on a list of paths
SortPaths(file_paths) ==
  LET sorted == sort_files([n \in DOMAIN file_paths |-> PathFile(file_paths[n])])
  IN  [n \in DOMAIN sorted |-> sorted[n].path]

Listings == UNION {[1..m -> FileNames] : m \in 0..MaxList}

CallSortFiles ==
  /\ fn.op = "none"
  /\ \E file_paths \in Listings :
       fn' = [op |-> "sort_files", file_paths |-> file_paths, ret |-> SortPaths(file_paths)]
  /\ UNCHANGED <<table, now, db, tmp, names, inv, dir, processed, drv, lastFail, redo>>

\* the caller takes the result
ReturnFn ==
  /\ fn.op # "none"
  /\ fn' = NoCall
  /\ UNCHANGED <<table, now, db, tmp, names, inv, dir, processed, drv, lastFail, redo>>

InitFn ==
  /\ table = KeyedTable
  /\ now = 0
  /\ db = [t \in Tables |-> EmptyBag]
  /\ tmp = {}
  /\ names = {}
  /\ inv = Idle
  /\ dir = {}
  /\ processed = {}
  /\ drv = NoDriver
  /\ lastFail = NoFail
  /\ redo = NoRedo
  /\ fn = NoCall

NextSort ==
  \/ CallSortFiles
  \/ ReturnFn

SpecSort == InitFn /\ [][NextSort]_vars

\* ---------------------------------------------------------------- CSVCleaner: cells
\* the longest column passed to a method of CSVCleaner
MaxCol == 3

\* A cell of a frame read with dtype=str is a text, a sequence of characters,
\* or missing (pd.NA).
Text(s) == [na |-> FALSE, s |-> s]
NA == [na |-> TRUE, s |-> <<>>]

Digits == <<"0", "1", "2", "3", "4", "5", "6", "7", "8", "9">>

IsDigit(c) == \E k \in DOMAIN Digits : Digits[k] = c

DigitVal(c) == (CHOOSE k \in DOMAIN Digits : Digits[k] = c) - 1

\* str.isdigit: at least one character, all of them digits
AllDigits(s) == s # <<>> /\ \A n \in DOMAIN s : IsDigit(s[n])

\* int(s) of a text of digits
RECURSIVE Val(_)
Val(s) == IF s = <<>> THEN 0 ELSE Val(SubSeq(s, 1, Len(s) - 1)) * 10 + DigitVal(s[Len(s)])

\* `ch in s`
Contains(s, ch) == \E n \in DOMAIN s : s[n] = ch

\* s.split(sep)
RECURSIVE Split(_, _)
Split(s, sep) ==
  IF ~Contains(s, sep) THEN <<s>>
  ELSE LET k == First({n \in DOMAIN s : s[n] = sep})
       IN  <<SubSeq(s, 1, k - 1)>> \o Split(SubSeq(s, k + 1, Len(s)), sep)

\* n written with w digits
RECURSIVE Pad(_, _)
Pad(n, w) == IF w = 0 THEN <<>> ELSE Pad(n \div 10, w - 1) \o <<Digits[(n % 10) + 1]>>

\* the columns of up to MaxCol cells over a set of cells
ColumnsOver(cells) == UNION {[1..m -> cells] : m \in 1..MaxCol}

\* ---------------------------------------------------------------- CSVCleaner: dates
\* a datetime64 value: a date as yyyymmdd, or NaT
Timestamp(y, m, d) == [nat |-> FALSE, ymd |-> y * 10000 + m * 100 + d]
NaT == [nat |-> TRUE, ymd |-> 0]

\* self.date_formats, in the declared order
date_formats ==
  << [sep |-> "-", fields |-> <<"d", "m", "Y">>],
     [sep |-> "/", fields |-> <<"d", "m", "Y">>],
     [sep |-> "",  fields |-> <<"Y", "m", "d">>],
     [sep |-> "-", fields |-> <<"Y", "m", "d">>],
     [sep |-> ".", fields |-> <<"d", "m", "Y">>],
     [sep |-> "-", fields |-> <<"d", "m", "y">>],
     [sep |-> "/", fields |-> <<"d", "m", "y">>] >>

\* the digits a directive takes: %Y four, %y two, %d and %m one or two
WidthOk(directive, w) ==
  CASE directive = "Y" -> w = 4
    [] directive = "y" -> w = 2
    [] OTHER           -> w \in 1..2

\* %y: 00-68 are 2000-2068, 69-99 are 1969-1999
Year(directive, n) ==
  IF directive = "Y" THEN n ELSE IF n < 69 THEN 2000 + n ELSE 1900 + n

\* One text parsed under one format, the whole text matching: the text is cut at
\* the separators (a format without separator takes eight digits, four for %Y), each
\* part has the digits of its directive, and the parts are a calendar date
\* within the bounds of a Timestamp; NaT otherwise (errors='coerce').
strptime(s, format) ==
  LET w1    == IF format.fields[1] = "Y" THEN 4 ELSE 2
      w2    == IF format.fields[2] = "Y" THEN 4 ELSE 2
      parts == IF format.sep # "" THEN Split(s, format.sep)
               ELSE IF Len(s) = 8
               THEN <<SubSeq(s, 1, w1), SubSeq(s, w1 + 1, w1 + w2), SubSeq(s, w1 + w2 + 1, 8)>>
               ELSE <<>>
      shaped == /\ Len(parts) = 3
                /\ \A k \in 1..3 : AllDigits(parts[k]) /\ WidthOk(format.fields[k], Len(parts[k]))
      at(f)  == Val(parts[CHOOSE k \in 1..3 : format.fields[k] \in f])
      y      == Year(format.fields[CHOOSE k \in 1..3 : format.fields[k] \in {"Y", "y"}], at({"Y", "y"}))
  IN  IF shaped /\ CalendarDate(y, at({"m"}), at({"d"})) /\ y \in 1678..2261
      THEN Timestamp(y, at({"m"}), at({"d"}))
      ELSE NaT

\* pd.to_datetime(series, format=format, errors='coerce')
to_datetime(series, format) ==
  [n \in DOMAIN series |-> IF series[n].na THEN NaT ELSE strptime(series[n].s, format)]

\* With errors='coerce' a text that does not parse becomes NaT: pd.to_datetime
\* raises for no column of texts and missing values.
to_datetime_raises(series, format) == FALSE

\* pd.to_datetime(series, errors='coerce', dayfirst=True): each text under the
\* first declared format that parses it
to_datetime_dayfirst(series) ==
  [n \in DOMAIN series |->
     LET K == {k \in DOMAIN date_formats :
                 ~series[n].na /\ ~strptime(series[n].s, date_formats[k]).nat}
     IN  IF K = {} THEN NaT ELSE strptime(series[n].s, date_formats[First(K)])]

\* lines 133-151: the formats are tried in order; the first call of
\* pd.to_datetime that does not raise is assigned to the column and ends the loop
RECURSIVE TryFormats(_, _)
TryFormats(series, k) ==
  IF k > Len(date_formats) THEN to_datetime_dayfirst(series)
  ELSE IF to_datetime_raises(series, date_formats[k]) THEN TryFormats(series, k + 1)
  ELSE to_datetime(series, date_formats[k])

\* .dt.strftime('%d%m%Y'): NaT becomes missing
strftime(ts) ==
  IF ts.nat THEN NA
  ELSE Text(Pad(ts.ymd % 100, 2) \o Pad((ts.ymd \div 100) % 100, 2) \o Pad(ts.ymd \div 10000, 4))

\* _convert_dates: a frame is a function from column names to columns
convert_dates(df, date_columns) ==
  [col \in DOMAIN df |->
     IF col \in Range(date_columns)
     THEN [n \in DOMAIN df[col] |-> strftime(TryFormats(df[col], 1)[n])]
     ELSE df[col]]

\* one date written in each of the seven formats, a text that is no date, and
\* a missing value
DateCells ==
  {Text(<<"0", "1", "-", "1", "2", "-", "2", "0", "2", "4">>), Text(<<"1", "5", "/", "0", "6", "/", "2", "0", "2", "3">>), Text(<<"2", "0", "2", "4", "1", "2", "0", "1">>),
   Text(<<"2", "0", "2", "4", "-", "1", "2", "-", "0", "1">>), Text(<<"0", "1", ".", "1", "2", ".", "2", "0", "2", "4">>), Text(<<"0", "1", "-", "1", "2", "-", "2", "4">>),
   Text(<<"1", "5", "/", "0", "6", "/", "2", "3">>), Text(<<"a", "b", "c">>), NA}

CallConvertDates ==
  /\ fn.op = "none"
  /\ \E series \in ColumnsOver(DateCells), date_columns \in {<<"d1">>, <<"d2">>} :
       LET df == [col \in {"d1"} |-> series]
       IN  fn' = [op |-> "_convert_dates", df |-> df, date_columns |-> date_columns,
                  ret |-> convert_dates(df, date_columns)]
  /\ UNCHANGED <<table, now, db, tmp, names, inv, dir, processed, drv, lastFail, redo>>

\* ---------------------------------------------------------------- CSVCleaner: date filter
\* the most rows of a frame passed to read_csv_with_types
MaxFrame == 2

\* DateColumn.column: one column name, or a list of names
NameCol(c) == [list |-> FALSE, names |-> <<c>>]
ListCol(l) == [list |-> TRUE, names |-> l]

\* date_filter = None
None == [none |-> TRUE]

DateColumn(column, start_date, end_date) ==
  [none |-> FALSE, column |-> column, start_date |-> start_date, end_date |-> end_date]

\* format='%Y%m%d', the format of the filter
filter_format == [sep |-> "", fields |-> <<"Y", "m", "d">>]

\* what a method returns, or that it raised
Ok(df) == [outcome |-> "ok", df |-> df]
Raised(exc) == [outcome |-> "raise", df |-> exc]

Rows(df) == Len(df[CHOOSE col \in DOMAIN df : TRUE])

\* series.loc[mask]
RECURSIVE Loc(_, _)
Loc(series, mask) ==
  IF series = <<>> THEN <<>>
  ELSE (IF Head(mask) THEN <<Head(series)>> ELSE <<>>) \o Loc(Tail(series), Tail(mask))

\* lines 293-303: (temp_date_col >= start_dt) & (temp_date_col <= end_dt), or-ed
\* over the columns of a list; a comparison with NaT is False
Mask(df, columns, start_dt, end_dt) ==
  [n \in 1..Rows(df) |->
     \E k \in DOMAIN columns :
       LET temp_date_col == to_datetime(df[columns[k]], filter_format)
       IN  /\ ~temp_date_col[n].nat
           /\ temp_date_col[n].ymd >= start_dt.ymd
           /\ temp_date_col[n].ymd <= end_dt.ymd]

\* _apply_date_filter.  Line 283, `date_filter.column not in df.columns`, hashes
\* its left operand: a list is unhashable and the test raises TypeError.
apply_date_filter(df, date_filter) ==
  LET column   == date_filter.column
      start_dt == strptime(date_filter.start_date, filter_format)
      end_dt   == strptime(date_filter.end_date, filter_format)
  IN  IF column.names = <<>> \/ date_filter.start_date = <<>> \/ date_filter.end_date = <<>>
      THEN Ok(df)
      ELSE IF column.list THEN Raised("TypeError")
      ELSE IF column.names[1] \notin DOMAIN df THEN Ok(df)
      ELSE IF start_dt.nat \/ end_dt.nat THEN Raised("ValueError")
      ELSE LET mask == Mask(df, column.names, start_dt, end_dt)
           IN  IF \A n \in DOMAIN mask : ~mask[n] THEN Ok(df)
               ELSE Ok([col \in DOMAIN df |-> Loc(df[col], mask)])

\* texts of dates inside and outside December 2023, as yyyymmdd and as dd-mm-yyyy
FilterCells ==
  {Text(<<"2", "0", "2", "3", "1", "2", "1", "5">>), Text(<<"2", "0", "2", "4", "0", "1", "0", "5">>),
   Text(<<"1", "5", "-", "1", "2", "-", "2", "0", "2", "3">>), Text(<<"0", "5", "-", "0", "1", "-", "2", "0", "2", "4">>)}

Frames ==
  UNION {[{"d1", "d2"} -> [1..m -> FilterCells]] : m \in 1..MaxFrame}

\* the filters: the range of line 46 on one column, on a column the frame does
\* not have, on a list of columns, on no column, and no filter
DateFilters ==
  {DateColumn(column, <<"2", "0", "2", "3", "1", "1", "3", "0">>, <<"2", "0", "2", "3", "1", "2", "3", "1">>) :
     column \in {NameCol("d1"), NameCol("zz"), ListCol(<<"d1", "d2">>), ListCol(<<"zz">>),
                 ListCol(<<>>)}}
  \cup {None}

\* read_csv_with_types, lines 86-100, with no integer and no float columns: the
\* date columns are converted, then the filter is applied
CallReadCsv ==
  /\ fn.op = "none"
  /\ \E raw \in Frames, date_columns \in {<<>>, <<"d1">>, <<"d1", "d2">>},
        date_filter \in DateFilters :
       LET df  == IF date_columns # <<>> THEN convert_dates(raw, date_columns) ELSE raw
           res == IF date_filter.none THEN Ok(df) ELSE apply_date_filter(df, date_filter)
       IN  fn' = [op |-> "read_csv_with_types", raw |-> raw, date_columns |-> date_columns,
                  date_filter |-> date_filter, df |-> df,
                  outcome |-> res.outcome, ret |-> res.df]
  /\ UNCHANGED <<table, now, db, tmp, names, inv, dir, processed, drv, lastFail, redo>>

\* ---------------------------------------------------------------- CSVCleaner: numbers
\* the longest text among the cells passed to _safe_float_conversion one by one
MaxLen == 3

\* a float: mant / 10^scale with no trailing zero behind the point, or NaN
NaN == [nan |-> TRUE, mant |-> 0, scale |-> 0]

RECURSIVE Number(_, _)
Number(mant, scale) ==
  IF scale > 0 /\ mant % 10 = 0 THEN Number(mant \div 10, scale - 1)
  ELSE [nan |-> FALSE, mant |-> mant, scale |-> scale]

\* s.replace(ch, '')
Remove(s, ch) == SelectSeq(s, LAMBDA c : c # ch)

\* s.replace(a, b)
Replace(s, a, b) == [n \in DOMAIN s |-> IF s[n] = a THEN b ELSE s[n]]

\* s.strip()
RECURSIVE Strip(_)
Strip(s) ==
  IF s = <<>> THEN s
  ELSE IF Head(s) = " " THEN Strip(Tail(s))
  ELSE IF s[Len(s)] = " " THEN Strip(SubSeq(s, 1, Len(s) - 1))
  ELSE s

\* float(s) for a text of digits, points and other characters: digits with at
\* most one point and at least one digit; ValueError otherwise
FloatOk(s) ==
  LET parts == Split(s, ".")
  IN  /\ Len(parts) <= 2
      /\ \A k \in DOMAIN parts : parts[k] = <<>> \/ AllDigits(parts[k])
      /\ \E k \in DOMAIN parts : parts[k] # <<>>

Float(s) ==
  LET parts == Split(s, ".")
  IN  IF Len(parts) = 1 THEN Number(Val(parts[1]), 0)
      ELSE Number(Val(parts[1] \o parts[2]), Len(parts[2]))

convert_plain_number(value) ==
  IF value.na \/ value.s = <<>> THEN NaN
  ELSE LET value_str == Replace(Strip(value.s), ",", ".")
       IN  IF FloatOk(value_str) THEN Float(value_str) ELSE NaN

\* convert_danish_number, lines 199-215
convert_danish_number(value) ==
  IF value.na \/ value.s = <<>> THEN NaN
  ELSE LET stripped  == Strip(value.s)
           value_str == IF Contains(stripped, ".") /\ Contains(stripped, ",")
                        THEN Replace(Remove(stripped, "."), ",", ".")
                        ELSE IF Contains(stripped, ",")
                        THEN Replace(stripped, ",", ".")
                        ELSE stripped
       IN  IF FloatOk(value_str) THEN Float(value_str) ELSE NaN

\* _safe_float_conversion: series.apply(convert_danish_number)
safe_float_conversion(series) ==
  [n \in DOMAIN series |-> convert_danish_number(series[n])]

\* np.floor(pd.to_numeric(text, errors='coerce')) as Int64 for a text without
\* point and comma: its digits as an integer, missing when it is not a number
to_numeric_floor(value) ==
  IF value.na THEN NaN
  ELSE IF AllDigits(Remove(value.s, ".")) THEN Number(Val(Remove(value.s, ".")), 0)
  ELSE NaN

\* line 171: str.contains(',', na=False).any()
has_decimals(series) == \E n \in DOMAIN series : ~series[n].na /\ Contains(series[n].s, ",")

\* _convert_integers on one column, lines 171-178
convert_integers(series) ==
  IF has_decimals(series)
  THEN [dtype |-> "float", cells |-> safe_float_conversion(series)]
  ELSE [dtype |-> "Int64", cells |-> [n \in DOMAIN series |-> to_numeric_floor(series[n])]]

never_matches(s) == FALSE

\* str.match of \d{1,2}[-/\.]\d{1,2}[-/\.]\d{2,4} at the start of the text
MatchesDayFirst(s) ==
  \E a \in 1..2, b \in 1..2 :
    /\ Len(s) >= a + b + 4
    /\ \A n \in 1..a : IsDigit(s[n])
    /\ s[a + 1] \in {"-", "/", "."}
    /\ \A n \in (a + 2)..(a + b + 1) : IsDigit(s[n])
    /\ s[a + b + 2] \in {"-", "/", "."}
    /\ IsDigit(s[a + b + 3]) /\ IsDigit(s[a + b + 4])

\* str.match of \d{4}-\d{1,2}-\d{1,2} at the start of the text
MatchesYearFirst(s) ==
  \E b \in 1..2 :
    /\ Len(s) >= b + 7
    /\ \A n \in 1..4 : IsDigit(s[n])
    /\ s[5] = "-"
    /\ \A n \in 6..(5 + b) : IsDigit(s[n])
    /\ s[6 + b] = "-"
    /\ IsDigit(s[7 + b])

\* _suggest_column_type
suggest_column_type(series) ==
  LET non_null   == SelectSeq(series, LAMBDA c : ~c.na)
      has_comma  == \E n \in DOMAIN non_null : Contains(non_null[n].s, ",")
      is_numeric == \A n \in DOMAIN non_null :
                      AllDigits(Remove(Remove(non_null[n].s, ","), "."))
  IN  IF Len(non_null) = 0 THEN "text"
      ELSE IF \E n \in DOMAIN non_null : MatchesDayFirst(non_null[n].s) THEN "date"
      ELSE IF \E n \in DOMAIN non_null : MatchesYearFirst(non_null[n].s) THEN "date"
      ELSE IF is_numeric THEN (IF has_comma THEN "float" ELSE "integer")
      ELSE "text"

\* the cells of the columns: dates, grouped and decimal numbers, words, the
\* empty text and a missing value
SampleCells ==
  {Text(<<"0", "1", "-", "1", "2", "-", "2", "0", "2", "4">>), Text(<<"1", "5", "-", "0", "6", "-", "2", "0", "2", "3">>), Text(<<>>),
   Text(<<"1", ".", "2", "3", "4">>), Text(<<"5", "6">>), Text(<<"1", ",", "5">>), Text(<<"2", ",", "3">>),
   Text(<<"a", "b", "c">>), Text(<<"d", "e", "f">>),
   Text(<<"1", ".", "2", "3", "4", ",", "5", "6">>), Text(<<"1", "2", ",", "5">>), Text(<<"1", "2", "5">>), NA}

Alphabet == {"1", "5", ".", ",", " ", "a"}

\* the cells converted one by one: every text of up to MaxLen characters
Texts == UNION {[1..m -> Alphabet] : m \in 0..MaxLen}

CallSafeFloat ==
  /\ fn.op = "none"
  /\ \E series \in ColumnsOver(SampleCells) \cup {<<Text(s)>> : s \in Texts} :
       fn' = [op |-> "_safe_float_conversion", series |-> series, outcome |-> "ok",
              ret |-> safe_float_conversion(series)]
  /\ UNCHANGED <<table, now, db, tmp, names, inv, dir, processed, drv, lastFail, redo>>

CallConvertIntegers ==
  /\ fn.op = "none"
  /\ \E series \in ColumnsOver(SampleCells) :
       fn' = [op |-> "_convert_integers", series |-> series, ret |-> convert_integers(series)]
  /\ UNCHANGED <<table, now, db, tmp, names, inv, dir, processed, drv, lastFail, redo>>

CallSuggestColumnType ==
  /\ fn.op = "none"
  /\ \E series \in ColumnsOver(SampleCells) :
       fn' = [op |-> "_suggest_column_type", series |-> series,
              ret |-> suggest_column_type(series)]
  /\ UNCHANGED <<table, now, db, tmp, names, inv, dir, processed, drv, lastFail, redo>>

\* ---------------------------------------------------------------- CSVCleaner: specification
NextClean ==
  \/ CallConvertDates
  \/ CallReadCsv
  \/ CallSafeFloat
  \/ CallConvertIntegers
  \/ CallSuggestColumnType
  \/ ReturnFn

SpecClean == InitFn /\ [][NextClean]_vars

\* ---------------------------------------------------------------- properties of sort_files
ExportDate(filename) ==
  IF extract_date_from_filename(filename) = NoDate THEN Sentinel
  ELSE extract_date_from_filename(filename)

Reordered(l) == {[n \in DOMAIN l |-> l[p[n]]] : p \in Permutations(DOMAIN l)}

\* C12: sort_files returns its input reordered so that export date (1900-01-01
\* for a name without a calendar date), then sequence number (0 for a name
\* without one), then filename ascend; every order of the same distinct names
\* gives the same result; the four files of the example come out as undated,
\* 2025-01-01_005, 2025-06-17_001, 2025-06-17_002.
SortedFiles ==
  fn.op = "sort_files"
  => /\ SeqToBag(fn.ret) = SeqToBag(fn.file_paths)
     /\ \A n \in 1..(Len(fn.ret) - 1) :
          LET a == fn.ret[n]
              b == fn.ret[n + 1]
          IN  \/ ExportDate(a) < ExportDate(b)
              \/ /\ ExportDate(a) = ExportDate(b)
                 /\ extract_sequence_number(a) < extract_sequence_number(b)
              \/ /\ ExportDate(a) = ExportDate(b)
                 /\ extract_sequence_number(a) = extract_sequence_number(b)
                 /\ NameLeq(a, b)
     /\ Cardinality(Range(fn.file_paths)) = Len(fn.file_paths)
          => \A l \in Reordered(fn.file_paths) : SortPaths(l) = fn.ret
     /\ (/\ Len(fn.file_paths) = 4
         /\ Range(fn.file_paths) = {File_0617_002, File_0617_001, File_0101_005, File_undated})
          => fn.ret = <<File_undated, File_0101_005, File_0617_001, File_0617_002>>

\* the example list in the order the example gives it, sorted
SortedExample ==
  /\ fn.op = "sort_files"
  /\ fn.file_paths = <<File_0617_002, File_0617_001, File_0101_005, File_undated>>
  /\ fn.ret = <<File_undated, File_0101_005, File_0617_001, File_0617_002>>

\* ---------------------------------------------------------------- properties of CSVCleaner
SomeParses(series, k) == \E n \in DOMAIN series : ~to_datetime(series, date_formats[k])[n].nat

\* C13: _convert_dates converts a column under the first declared format under
\* which at least one of its values parses: the values that parse under that
\* format become their ddmmyyyy texts, the others become missing.
FirstParsingFormatWins ==
  (fn.op = "_convert_dates" /\ fn.date_columns = <<"d1">>)
  => LET series == fn.df["d1"]
         K      == {k \in DOMAIN date_formats : SomeParses(series, k)}
     IN  K # {}
         => fn.ret["d1"] =
              [n \in DOMAIN series |-> strftime(to_datetime(series, date_formats[First(K)])[n])]

\* the same for the columns with a value written as dd-mm-yyyy, the first format
FirstFormatConverts ==
  (fn.op = "_convert_dates" /\ fn.date_columns = <<"d1">> /\ SomeParses(fn.df["d1"], 1))
  => FirstParsingFormatWins

\* ---------------------------------------------------------------- properties of the date filter
Filtering == fn.op = "read_csv_with_types" /\ ~fn.date_filter.none

FilterNames == fn.date_filter.column.names

NamedExist == FilterNames # <<>> /\ \A k \in DOMAIN FilterNames : FilterNames[k] \in DOMAIN fn.df

\* the date of a cell of the frame the filter receives: the date its ddmmyyyy
\* text denotes when _convert_dates has converted the column, else the date its
\* yyyymmdd text denotes
CellDate(col, n) ==
  IF fn.df[col][n].na THEN NaT
  ELSE IF col \in Range(fn.date_columns)
  THEN strptime(fn.df[col][n].s, [sep |-> "", fields |-> <<"d", "m", "Y">>])
  ELSE strptime(fn.df[col][n].s, filter_format)

InRangeRow(n) ==
  \E k \in DOMAIN FilterNames :
    LET date == CellDate(FilterNames[k], n)
    IN  /\ ~date.nat
        /\ date.ymd >= Val(fn.date_filter.start_date)
        /\ date.ymd <= Val(fn.date_filter.end_date)

RowsInRange == [n \in 1..Rows(fn.df) |-> InRangeRow(n)]

\* C14: when the filter names existing columns and some row has a date within
\* the range in one of them, read_csv_with_types returns exactly the rows that
\* have, whether or not _convert_dates has converted the named columns.
FilterKeepsRowsInRange ==
  (Filtering /\ NamedExist /\ \E n \in 1..Rows(fn.df) : InRangeRow(n))
  => /\ fn.outcome = "ok"
     /\ fn.ret = [col \in DOMAIN fn.df |-> Loc(fn.df[col], RowsInRange)]

\* the same for a filter on one column that _convert_dates has not converted
FilterKeepsRawRowsInRange ==
  (/\ Filtering /\ ~fn.date_filter.column.list
   /\ FilterNames[1] \notin Range(fn.date_columns))
  => FilterKeepsRowsInRange

\* C15: a filter on columns of which one is not in the frame, and a filter in
\* whose range no row has a date, return the frame they received, with no error.
FilterPassesThrough ==
  (/\ Filtering /\ FilterNames # <<>>
   /\ ~NamedExist \/ \A n \in 1..Rows(fn.df) : ~InRangeRow(n))
  => fn.outcome = "ok" /\ fn.ret = fn.df

\* the same for a filter that names one column, not a list
FilterOnOneColumnPassesThrough ==
  (Filtering /\ ~fn.date_filter.column.list) => FilterPassesThrough

\* ---------------------------------------------------------------- properties of the number conversions
\* the number written with integer digits int and decimals frac; missing when
\* either holds something else than digits or both are empty
DecimalValue(int, frac) ==
  IF /\ int = <<>> \/ AllDigits(int)
     /\ frac = <<>> \/ AllDigits(frac)
     /\ int \o frac # <<>>
  THEN Number(Val(int \o frac), Len(frac))
  ELSE NaN

\* what a cell denotes in the Danish notation: ',' is the decimal point and,
\* where grouping is set, '.' groups thousands
DanishValue(t, grouping) ==
  LET parts == Split(t, ",")
      Plain(x) == IF grouping THEN Remove(x, ".") ELSE x
  IN  IF Len(parts) = 1 THEN DecimalValue(Plain(parts[1]), <<>>)
      ELSE IF Len(parts) = 2 THEN DecimalValue(Plain(parts[1]), Plain(parts[2]))
      ELSE NaN

FloatConverted == fn.op = "_safe_float_conversion"

\* C18: _safe_float_conversion never raises and returns one value per cell: a
\* null or empty cell gives NaN; a text with both '.' and ',' has every '.'
\* removed and ',' as the decimal point ("1.234,56" gives 1234.56); a text with
\* only ',' has it as the decimal point ("12,5" gives 12.5); a text with
\* neither is parsed as written ("125" gives 125.0); what does not parse gives
\* NaN
SafeFloatConversion ==
  FloatConverted =>
    /\ fn.outcome = "ok"
    /\ DOMAIN fn.ret = DOMAIN fn.series
    /\ \A n \in DOMAIN fn.series :
         LET c     == fn.series[n]
             r     == fn.ret[n]
             t     == Strip(c.s)
             dot   == Contains(t, ".")
             comma == Contains(t, ",")
         IN  /\ (c.na \/ c.s = <<>>) => r = NaN
             /\ (~c.na /\ c.s # <<>> /\ dot /\ comma) => r = DanishValue(t, TRUE)
             /\ (~c.na /\ c.s # <<>> /\ ~dot /\ comma) => r = DanishValue(t, FALSE)
             /\ (~c.na /\ c.s # <<>> /\ ~dot /\ ~comma) => r = DecimalValue(t, <<>>)
             /\ c = Text(<<"1", ".", "2", "3", "4", ",", "5", "6">>) => r = [nan |-> FALSE, mant |-> 123456, scale |-> 2]
             /\ c = Text(<<"1", "2", ",", "5">>) => r = [nan |-> FALSE, mant |-> 125, scale |-> 1]
             /\ c = Text(<<"1", "2", "5">>) => r = [nan |-> FALSE, mant |-> 125, scale |-> 0]

\* reached: a column holding "1.234,56" and an unparseable cell was converted
\* to 1234.56 and NaN
SafeFloatGrouped ==
  /\ FloatConverted
  /\ \E n, m \in DOMAIN fn.series :
       /\ fn.series[n] = Text(<<"1", ".", "2", "3", "4", ",", "5", "6">>)
       /\ fn.ret[n] = [nan |-> FALSE, mant |-> 123456, scale |-> 2]
       /\ fn.series[m] = Text(<<"a", "b", "c">>)
       /\ fn.ret[m] = NaN

IntegersConverted == fn.op = "_convert_integers"

AnyComma == \E n \in DOMAIN fn.series : ~fn.series[n].na /\ Contains(fn.series[n].s, ",")

\* a number written with '.' as thousands grouping, such as "1.234"
Grouped(c) ==
  /\ ~c.na
  /\ Contains(c.s, ".")
  /\ AllDigits(Remove(c.s, "."))

\* C16: _convert_integers types a column as a whole, float when any cell holds
\* ',' and floored integer with '.' removed otherwise, and a cell such as
\* "1.234" becomes 1234 whichever branch the column takes
ColumnTypedAsWhole ==
  IntegersConverted =>
    /\ fn.ret.dtype = (IF AnyComma THEN "float" ELSE "Int64")
    /\ DOMAIN fn.ret.cells = DOMAIN fn.series
    /\ \A n \in DOMAIN fn.series :
         Grouped(fn.series[n]) =>
           fn.ret.cells[n] = DecimalValue(Remove(fn.series[n].s, "."), <<>>)

\* the part that holds: one branch per column, and grouping is read as
\* thousands in a column without any ','
IntegerColumnReadsGrouping ==
  IntegersConverted =>
    /\ fn.ret.dtype = (IF AnyComma THEN "float" ELSE "Int64")
    /\ DOMAIN fn.ret.cells = DOMAIN fn.series
    /\ AnyComma => \A n \in DOMAIN fn.series :
         fn.ret.cells[n] = convert_danish_number(fn.series[n])
    /\ ~AnyComma => \A n \in DOMAIN fn.series :
         LET c == fn.series[n]
         IN  fn.ret.cells[n] =
               (IF c.na THEN NaN ELSE DecimalValue(Remove(c.s, "."), <<>>))

TypeSuggested == fn.op = "_suggest_column_type"

Sampled == SelectSeq(fn.series, LAMBDA c : ~c.na)

DateShaped(s) == MatchesDayFirst(s) \/ MatchesYearFirst(s)

DigitTest == \A n \in DOMAIN Sampled : AllDigits(Remove(Remove(Sampled[n].s, "."), ","))

SomeComma == \E n \in DOMAIN Sampled : Contains(Sampled[n].s, ",")

\* C17: _suggest_column_type returns one of date, integer, float, text by first
\* match: text without a non-null value; date when some value is date-shaped;
\* integer when every value is digits once '.' and ',' are removed and none
\* holds ','; float when the digit test holds and some value holds ','; text
\* otherwise. ["01-12-2024", "15-06-2023", ""] is date, ["1.234", "56"] is
\* integer, ["1,5", "2,3"] is float and ["abc", "def"] is text
SuggestedTypeIsFirstMatch ==
  TypeSuggested =>
    /\ fn.ret \in {"date", "integer", "float", "text"}
    /\ fn.ret =
         (IF Len(Sampled) = 0 THEN "text"
          ELSE IF \E n \in DOMAIN Sampled : DateShaped(Sampled[n].s) THEN "date"
          ELSE IF DigitTest /\ ~SomeComma THEN "integer"
          ELSE IF DigitTest /\ SomeComma THEN "float"
          ELSE "text")
    /\ fn.series = <<Text(<<"0", "1", "-", "1", "2", "-", "2", "0", "2", "4">>), Text(<<"1", "5", "-", "0", "6", "-", "2", "0", "2", "3">>), Text(<<>>)>> => fn.ret = "date"
    /\ fn.series = <<Text(<<"1", ".", "2", "3", "4">>), Text(<<"5", "6">>)>> => fn.ret = "integer"
    /\ fn.series = <<Text(<<"1", ",", "5">>), Text(<<"2", ",", "3">>)>> => fn.ret = "float"
    /\ fn.series = <<Text(<<"a", "b", "c">>), Text(<<"d", "e", "f">>)>> => fn.ret = "text"

\* reached: the sample "01-12-2024", "15-06-2023", "" was typed as date
SuggestedDate ==
  /\ TypeSuggested
  /\ fn.series = <<Text(<<"0", "1", "-", "1", "2", "-", "2", "0", "2", "4">>), Text(<<"1", "5", "-", "0", "6", "-", "2", "0", "2", "3">>), Text(<<>>)>>
  /\ fn.ret = "date"

====
